---- MODULE Spec2Model ----
(***************************************************************************)
(* A model of naoko/lib/database.py: the NaokoDB wrapper around an sqlite3 *)
(* connection (lifecycle guard, schema inspection, 1->2 migration, the     *)
(* video query builder and the chat insert helper).                        *)
(*                                                                         *)
(* The database is modelled as two copies: `disk` is what is committed,    *)
(* `db` is what the handle's connection sees (committed state plus the     *)
(* writes of its pending transaction).                                     *)
(***************************************************************************)
EXTENDS Integers, Sequences, FiniteSets, TLC

VARIABLES
    disk,        \* committed content of the database file
    db,          \* content as seen through self.con (includes pending writes)
    state,       \* self._state: "unset" before line 138, then "open" / "closed"
    pc,          \* position of the caller: idle, setup, verify, ready, failed
    initscript,  \* self.initscript
    last,        \* the last operation called: its name, error, result, effects
    ncur,        \* cursors opened on the connection and not closed
    closes,      \* number of self.con.close() calls made on the connection
    opens        \* number of NaokoDB(...) constructions started

vars == <<disk, db, state, pc, initscript, last, ncur, closes, opens>>

----------------------------------------------------------------------------
\* Bounds of the model.

MaxOpens == 2
MaxCursors == 1
MaxChat == 2
MaxCloses == 2

----------------------------------------------------------------------------
\* Values.

None == "None"

NoErr == [kind |-> "none", msg |-> ""]

Err(k, m) == [kind |-> k, msg |-> m]

\* A TEXT value of the metadata.value column: NULL or a string (characters).
Null == [null |-> TRUE, text |-> <<>>]

Text(s) == [null |-> FALSE, text |-> s]

TableNames == {"video_stats", "videos", "chat", "metadata"}

IndexNames == {"chat_ts", "chat_user"}

\* The values a 'dbversion' row is given in the databases explored.
StoredValues ==
    { Text(<<"2">>), Text(<<"1">>), Text(<<"3">>), Text(<<"0">>),
      Text(<<" ", "2">>), Text(<<"1", "0">>), Text(<<"-", "1">>),
      Text(<<"2", "x">>), Text(<<"x">>), Text(<<>>), Null }

----------------------------------------------------------------------------
\* The database engine (sqlite3), as far as the statements of this file use it.

\* A database: its tables, its indexes, the rows of metadata with key
\* 'dbversion' (their values), the rows of chat, and the rows of videos and
\* of video_stats in the order the engine scans them.
Database(t, i, m, c) ==
    [tables |-> t, indexes |-> i, meta |-> m, chat |-> c,
     videos |-> <<>>, stats |-> <<>>]

\* A row of videos(type, id, duration_ms, title) and one of
\* video_stats(type, id, uname); an id is given by its place in the order
\* the engine sorts ids in.
VideoRow(t, i) == [type |-> t, id |-> i, duration_ms |-> 1000 * i, title |-> "title"]

StatsRow(t, i, u) == [type |-> t, id |-> i, uname |-> u]

\* Database d holding videos v and video_stats s.
Stocked(d, v, s) == [d EXCEPT !.videos = v, !.stats = s]

EmptyDatabase == Database({}, {}, <<>>, <<>>)

Stmt(k, a, b) == [k |-> k, a |-> a, b |-> b]

\* "SELECT name FROM sqlite_master WHERE type='table'"
dbinfo_sql == Stmt("select_tables", None, None)

\* "SELECT value FROM metadata WHERE key='dbversion'"
version_sql == Stmt("select_version", None, None)

CreateTable(t) == Stmt("create_table", t, None)

CreateIndex(i, t) == Stmt("create_index", i, t)

InsertVersion(v) == Stmt("insert_version", v, None)

InsertChatRow(row) == Stmt("insert_chat", row, None)

DropTable(t) == Stmt("drop_table", t, None)

IsDDL(stmt) == stmt.k \in {"create_table", "create_index", "drop_table"}

\* The table an index belongs to.
IndexTable(i) == "chat"

EngineOk(d, rows) == [ok |-> TRUE, db |-> d, rows |-> rows, err |-> NoErr]

EngineFail(d, k, m) == [ok |-> FALSE, db |-> d, rows |-> <<>>, err |-> Err(k, m)]

\* SELECT ... FROM video_stats vs, videos v WHERE vs.type = v.type AND
\* vs.id = v.id: the pairs of rows that match, video_stats scanned in the
\* outer loop.
RECURSIVE Join(_, _)
Join(stats, videos) ==
    IF stats = <<>> THEN <<>>
    ELSE LET vs == Head(stats)
             m  == SelectSeq(videos, LAMBDA v : v.type = vs.type /\ v.id = vs.id)
         IN  [k \in 1..Len(m) |-> [vs |-> vs, v |-> m[k]]] \o Join(Tail(stats), videos)

\* ORDER BY v.id ASC: pair p put into the sorted pairs s, after the pairs of
\* the same id.
RECURSIVE Insert(_, _)
Insert(p, s) ==
    IF s = <<>> THEN <<p>>
    ELSE IF p.v.id < Head(s).v.id THEN <<p>> \o s
    ELSE <<Head(s)>> \o Insert(p, Tail(s))

RECURSIVE SortById(_)
SortById(pairs) ==
    IF pairs = <<>> THEN <<>>
    ELSE Insert(pairs[Len(pairs)], SortById(SubSeq(pairs, 1, Len(pairs) - 1)))

Reverse(s) == [k \in 1..Len(s) |-> s[Len(s) + 1 - k]]

\* The pairs in the order the clause asks for; where it asks for none, and
\* for RANDOM(), they come as the scan finds them (one of the orders the
\* engine may give).
Ordered(pairs, order) ==
    CASE order = "ORDER BY v.id ASC" -> SortById(pairs)
      [] order = "ORDER BY v.id DESC" -> Reverse(SortById(pairs))
      [] OTHER -> pairs

\* LIMIT ? bound to n: the first n rows, all of them when n is negative.
Limited(rows, limit, binds) ==
    IF limit /\ binds[1] >= 0 /\ binds[1] < Len(rows)
    THEN SubSeq(rows, 1, binds[1])
    ELSE rows

\* The columns a statement of getVideos may select, and the value of each in
\* a pair of rows.
SelectColumns == {"v.type", "v.id", "duration_ms", "title", "uname"}

ColumnValue(p, c) ==
    CASE c = "v.type" -> [t |-> "text", n |-> 0, s |-> p.v.type]
      [] c = "v.id" -> [t |-> "text", n |-> p.v.id, s |-> "id"]
      [] c = "duration_ms" -> [t |-> "integer", n |-> p.v.duration_ms, s |-> ""]
      [] c = "title" -> [t |-> "text", n |-> 0, s |-> p.v.title]
      [] c = "uname" -> [t |-> "text", n |-> 0, s |-> p.vs.uname]

\* The rows the statement q of getVideos yields on database d.
Select(d, q) ==
    LET rows == Limited(Ordered(Join(d.stats, d.videos), q.order), q.limit, q.binds)
    IN  [k \in 1..Len(rows) |-> [c \in q.select |-> ColumnValue(rows[k], c)]]

\* One statement run by the engine on database d.
Run(d, stmt) ==
    CASE stmt.k = "select_tables" -> EngineOk(d, d.tables)
      [] stmt.k = "select_version" ->
            IF "metadata" \in d.tables
            THEN EngineOk(d, d.meta)
            ELSE EngineFail(d, "OperationalError", "no such table")
      [] stmt.k = "create_table" ->
            IF stmt.a \in d.tables
            THEN EngineFail(d, "OperationalError", "table already exists")
            ELSE EngineOk([d EXCEPT !.tables = @ \cup {stmt.a}], <<>>)
      [] stmt.k = "create_index" ->
            IF stmt.b \notin d.tables
            THEN EngineFail(d, "OperationalError", "no such table")
            ELSE IF stmt.a \in d.indexes
            THEN EngineFail(d, "OperationalError", "index already exists")
            ELSE EngineOk([d EXCEPT !.indexes = @ \cup {stmt.a}], <<>>)
      [] stmt.k = "insert_version" ->
            IF "metadata" \notin d.tables
            THEN EngineFail(d, "OperationalError", "no such table")
            ELSE IF d.meta # <<>>
            THEN EngineFail(d, "IntegrityError", "key is not unique")
            ELSE EngineOk([d EXCEPT !.meta = <<stmt.a>>], <<>>)
      [] stmt.k = "insert_chat" ->
            IF "chat" \notin d.tables
            THEN EngineFail(d, "OperationalError", "no such table")
            ELSE EngineOk([d EXCEPT !.chat = Append(@, stmt.a)], <<>>)
      [] stmt.k = "select_videos" ->
            IF ~({"video_stats", "videos"} \subseteq d.tables)
            THEN EngineFail(d, "OperationalError", "no such table")
            ELSE IF ~(stmt.a.select \subseteq SelectColumns)
            THEN EngineFail(d, "OperationalError", "no such column")
            ELSE EngineOk(d, Select(d, stmt.a))
      [] stmt.k = "drop_table" ->
            IF stmt.a \notin d.tables
            THEN EngineFail(d, "OperationalError", "no such table")
            ELSE EngineOk(
                    [d EXCEPT
                       !.tables = @ \ {stmt.a},
                       !.indexes = {i \in @ : IndexTable(i) # stmt.a},
                       !.meta = IF stmt.a = "metadata" THEN <<>> ELSE @,
                       !.chat = IF stmt.a = "chat" THEN <<>> ELSE @,
                       !.videos = IF stmt.a = "videos" THEN <<>> ELSE @,
                       !.stats = IF stmt.a = "video_stats" THEN <<>> ELSE @],
                    <<>>)

\* What the handle works on: the connection's view, the committed database,
\* the open cursors, and the calls made on the connection and the messages
\* logged since the operation began (the debug messages of the cursors and of
\* getVersion are left out).
World(d, k, n) == [db |-> d, disk |-> k, ncur |-> n, calls |-> 0, log |-> <<>>]

Called(w) == [w EXCEPT !.calls = @ + 1]

\* con.commit()
ConCommit(w) == [Called(w) EXCEPT !.disk = w.db]

\* x is computed once and F works on it.
Let(x, F(_)) == F(x)

\* One Python statement after another: when x raised, the exception goes on
\* to the caller; when it returned, F carries on from its result.
Then(x, F(_)) == IF x.err # NoErr THEN x ELSE F(x)

\* cur.execute(stmt) of the sqlite3 module: a pending transaction is committed
\* before a statement that is neither a SELECT nor an INSERT, and such a
\* statement is run outside any transaction; an INSERT stays pending until
\* the next commit.
CurExecute(w, stmt) ==
    Let(Run(w.db, stmt), LAMBDA r :
        [ok |-> r.ok, rows |-> r.rows, err |-> r.err,
         w |-> [Called(w) EXCEPT !.db = r.db,
                                 !.disk = IF IsDDL(stmt) THEN r.db ELSE w.disk]])

----------------------------------------------------------------------------
\* int(version) of Python on a value read from a TEXT column.

Digits == {"0", "1", "2", "3", "4", "5", "6", "7", "8", "9"}

DigitValue(c) ==
    CASE c = "0" -> 0 [] c = "1" -> 1 [] c = "2" -> 2 [] c = "3" -> 3
      [] c = "4" -> 4 [] c = "5" -> 5 [] c = "6" -> 6 [] c = "7" -> 7
      [] c = "8" -> 8 [] c = "9" -> 9

RECURSIVE LStrip(_)
LStrip(s) == IF s # <<>> /\ Head(s) = " " THEN LStrip(Tail(s)) ELSE s

RECURSIVE RStrip(_)
RStrip(s) ==
    IF s # <<>> /\ s[Len(s)] = " " THEN RStrip(SubSeq(s, 1, Len(s) - 1)) ELSE s

RECURSIVE DigitsValue(_, _)
DigitsValue(s, acc) ==
    IF s = <<>> THEN acc ELSE DigitsValue(Tail(s), 10 * acc + DigitValue(Head(s)))

\* int(v): TypeError on None, ValueError on a string that is no integer
\* literal (surrounding blanks and one sign are accepted).
int(v) ==
    IF v.null
    THEN [err |-> Err("TypeError", "int() argument must be a string or a number"),
          val |-> 0]
    ELSE LET s    == RStrip(LStrip(v.text))
             neg  == s # <<>> /\ Head(s) = "-"
             body == IF s # <<>> /\ Head(s) \in {"-", "+"} THEN Tail(s) ELSE s
         IN  IF body = <<>> \/ \E i \in 1..Len(body) : body[i] \notin Digits
             THEN [err |-> Err("ValueError", "invalid literal for int()"), val |-> 0]
             ELSE [err |-> NoErr,
                   val |-> IF neg THEN 0 - DigitsValue(body, 0)
                           ELSE DigitsValue(body, 0)]

----------------------------------------------------------------------------
\* NaokoDB: results of a method are [w, err, ret]: the world after the call,
\* the exception raised (NoErr when it returns) and the returned value.

Return(w, v) == [w |-> w, err |-> NoErr, ret |-> v]

Raise(w, e) == [w |-> w, err |-> e, ret |-> None]

ClosedError == Err("DatabaseError", "Cannot perform operations on closed database")

NotOpenError == Err("DatabaseError", "Database must be open to perform operations")

\* dbopen without its test of the state.
dbopen_unguarded(st, w, r) == r

\* The decorator dbopen: r is the result of running fn.
dbopen(st, w, r) ==
    IF st = "open" THEN r
    ELSE IF st = "closed" THEN Raise(w, ClosedError)
    ELSE Raise(w, NotOpenError)

Logged(w, level, e) == [w EXCEPT !.log = Append(@, [level |-> level, what |-> e])]

\* NaokoCursor.__exit__ with exception e in flight (NoErr: none): self.close(),
\* then the error is logged; the exception is not suppressed.
CursorExit(w, e) ==
    LET w1 == [w EXCEPT !.ncur = @ - 1]
    IN  IF e # NoErr THEN Logged(w1, "error", e) ELSE w1

\* NaokoDB.cursor: self.con.cursor(NaokoCursor).
cursor(st, w) ==
    dbopen(st, w, Return([Called(w) EXCEPT !.ncur = @ + 1], "cursor"))

\* NaokoDB.execute: returns the open cursor (ret holds the rows it will
\* yield); when cur.execute raises, the cursor is left as it is.
execute(st, w, stmt) ==
    dbopen(st, w,
        Then(cursor(st, w), LAMBDA c :
            Let(CurExecute(c.w, stmt), LAMBDA x :
                IF x.ok THEN Return(x.w, x.rows) ELSE Raise(x.w, x.err))))

\* NaokoDB.executeDML: with self.execute(stmt): pass
executeDML(st, w, stmt) ==
    dbopen(st, w,
        Then(execute(st, w, stmt), LAMBDA x :
            Return(CursorExit(x.w, NoErr), None)))

\* NaokoDB.commit
commit(st, w) == dbopen(st, w, Return(ConCommit(w), None))

\* NaokoDB.fetch: with self.execute(stmt) as cur: return cur.fetchall()
fetch(st, w, stmt) ==
    dbopen(st, w,
        Then(execute(st, w, stmt), LAMBDA x :
            Return(CursorExit(x.w, NoErr), x.ret)))

----------------------------------------------------------------------------
\* Initialisation scripts. A script is described by what it creates; it is
\* run as schema creation that skips what exists already.

Script(f, t, i, m) == [fails |-> f, tables |-> t, indexes |-> i, meta |-> m]

\* naoko.sql, the script the handle is opened with: the version 2 schema.
NaokoSql == Script(FALSE, TableNames, IndexNames, <<Text(<<"2">>)>>)

\* The scripts explored: naoko.sql, a script the engine rejects, the legacy
\* schema without chat and metadata, a script without the videos table, a
\* script that stores no version and an empty script.
Scripts ==
    { NaokoSql,
      Script(TRUE, {}, {}, <<>>),
      Script(FALSE, {"video_stats", "videos"}, {}, <<>>),
      Script(FALSE, {"video_stats", "chat", "metadata"}, IndexNames, <<Text(<<"2">>)>>),
      Script(FALSE, {"video_stats", "videos", "chat", "metadata"}, {}, <<>>),
      Script(FALSE, {}, {}, <<>>) }

\* The engine running a whole script on database d.
RunScript(d, script) ==
    IF script.fails
    THEN EngineFail(d, "OperationalError", "syntax error")
    ELSE LET t == d.tables \cup script.tables
         IN  EngineOk(
                [d EXCEPT
                   !.tables = t,
                   !.indexes = @ \cup {i \in script.indexes : IndexTable(i) \in t},
                   !.meta = IF "metadata" \in t /\ @ = <<>> THEN script.meta ELSE @],
                <<>>)

\* cur.executescript(script) of the sqlite3 module: commits first, then runs
\* the script outside any transaction.
CurExecuteScript(w, script) ==
    Let(RunScript(w.db, script), LAMBDA r :
        [ok |-> r.ok, rows |-> r.rows, err |-> r.err,
         w |-> [Called(w) EXCEPT !.db = r.db, !.disk = r.db]])

\* NaokoDB.executescript: returns the open cursor.
executescript(st, w, script) ==
    dbopen(st, w,
        Then(cursor(st, w), LAMBDA c :
            Let(CurExecuteScript(c.w, script), LAMBDA x :
                IF x.ok THEN Return(x.w, "cursor") ELSE Raise(x.w, x.err))))

RunningInitscript == Err("Running initscript", "")

\* NaokoDB.initdb: with self.executescript(self.initscript): self.con.commit()
initdb(st, w, script) ==
    dbopen(st, w,
        Then(executescript(st, Logged(w, "debug", RunningInitscript), script),
             LAMBDA x : Return(CursorExit(ConCommit(x.w), NoErr), None)))

----------------------------------------------------------------------------
\* Schema inspection and migration.

required_tables == {"video_stats", "videos", "chat"}

\* NaokoDB._getTables
getTables(st, w) ==
    Then(execute(st, w, dbinfo_sql), LAMBDA x :
        Return(CursorExit(x.w, NoErr), x.ret))

NoRowError == Err("TypeError", "'NoneType' object has no attribute '__getitem__'")

\* NaokoDB._getVersion
getVersion(st, w) ==
    Then(getTables(st, w), LAMBDA t :
        IF "metadata" \in t.ret
        THEN Then(execute(st, t.w, version_sql), LAMBDA x :
                IF x.ret = <<>>        \* cur.fetchone() is None
                THEN Raise(CursorExit(x.w, NoRowError), NoRowError)
                ELSE Let(int(x.ret[1]), LAMBDA i :
                        IF i.err # NoErr
                        THEN Raise(CursorExit(x.w, i.err), i.err)
                        ELSE Return(CursorExit(x.w, NoErr), i.val)))
        ELSE Return(t.w, 1))

\* The migration without its last statement.
upgrade_stmts_noversion ==
    << CreateTable("metadata"),
       CreateTable("chat"),
       CreateIndex("chat_ts", "chat"),
       CreateIndex("chat_user", "chat") >>

\* The migration storing a version below the one it starts from.
upgrade_stmts_v0 ==
    << CreateTable("metadata"),
       CreateTable("chat"),
       CreateIndex("chat_ts", "chat"),
       CreateIndex("chat_user", "chat"),
       InsertVersion(Text(<<"0">>)) >>

upgrade_stmts ==
    << CreateTable("metadata"),
       CreateTable("chat"),
       CreateIndex("chat_ts", "chat"),
       CreateIndex("chat_user", "chat"),
       InsertVersion(Text(<<"2">>)) >>

\* The loop over the statements going on after a statement has failed.
RECURSIVE ExecuteAll_goingon(_, _, _)
ExecuteAll_goingon(st, w, stmts) ==
    IF stmts = <<>> THEN Return(w, None)
    ELSE Let(executeDML(st, w, Head(stmts)), LAMBDA x :
            ExecuteAll_goingon(st, x.w, Tail(stmts)))

\* for stmt in stmts: self.executeDML(stmt)
RECURSIVE ExecuteAll(_, _, _)
ExecuteAll(st, w, stmts) ==
    IF stmts = <<>> THEN Return(w, None)
    ELSE Then(executeDML(st, w, Head(stmts)), LAMBDA x :
            ExecuteAll(st, x.w, Tail(stmts)))

\* NaokoDB._upgrade_1_2
upgrade_1_2(st, w) == ExecuteAll(st, w, upgrade_stmts)

UnknownVersion == Err("UNKNOWN DATABASE VERSION", "")

\* _setupSchema that takes the incremental path on an empty database too.
setupSchema_noinit(st, w, script) ==
    Then(getVersion(st, w), LAMBDA v :
        IF v.ret = 1 THEN upgrade_1_2(st, v.w)
        ELSE Return(v.w, None))

\* _setupSchema that migrates every database that is not at version 2.
setupSchema_migrateunknown(st, w, script) ==
    Then(getTables(st, w), LAMBDA t :
        IF Cardinality(t.ret) = 0 THEN initdb(st, t.w, script)
        ELSE Then(getVersion(st, t.w), LAMBDA v :
                IF v.ret = 2 THEN Return(v.w, None)
                ELSE upgrade_1_2(st, v.w)))

\* NaokoDB._setupSchema
setupSchema(st, w, script) ==
    Then(getTables(st, w), LAMBDA t :
        IF Cardinality(t.ret) = 0 THEN initdb(st, t.w, script)
        ELSE Then(getVersion(st, t.w), LAMBDA v :
                IF v.ret = 1 THEN upgrade_1_2(st, v.w)
                ELSE IF v.ret = 2 THEN Return(v.w, None)
                ELSE Return(Logged(v.w, "warn", UnknownVersion), None)))

MissingTablesError ==
    Err("ValueError", "Database is non-empty but does not provide required tables")

\* The check of the required tables left out.
verifyTables_unchecked(st, w) ==
    Then(getTables(st, w), LAMBDA t : Return(t.w, None))

\* NaokoDB.__init__, lines 141-146: the check of the required tables.
verifyTables(st, w) ==
    Then(getTables(st, w), LAMBDA t :
        IF ~(required_tables \subseteq t.ret)
        THEN Raise(t.w, MissingTablesError)
        ELSE Return(t.w, None))

----------------------------------------------------------------------------
\* Python values passed to getVideos and insertChat.

\* A value is its type t with the number n of an int or the characters s of
\* a str.
PyNone == [t |-> "NoneType", n |-> 0, s |-> <<>>]

PyInt(n) == [t |-> "int", n |-> n, s |-> <<>>]

PyStr(s) == [t |-> "str", n |-> 0, s |-> s]

\* Some float, such as 1.5.
PyFloat == [t |-> "float", n |-> 0, s |-> <<>>]

UpperCase == <<"A", "C", "D", "E", "I", "M", "N", "O", "R", "S", "W", "Y">>

LowerCase == <<"a", "c", "d", "e", "i", "m", "n", "o", "r", "s", "w", "y">>

LowerChar(c) ==
    IF \E i \in 1..Len(UpperCase) : UpperCase[i] = c
    THEN LowerCase[CHOOSE i \in 1..Len(UpperCase) : UpperCase[i] = c]
    ELSE c

\* str.lower()
lower(s) == [i \in 1..Len(s) |-> LowerChar(s[i])]

id == PyStr(<<"i", "d">>)

ASC == PyStr(<<"A", "S", "C">>)

DESC == PyStr(<<"D", "E", "S", "C">>)

RANDOM == PyStr(<<"R", "A", "N", "D", "O", "M", "(", ")">>)

----------------------------------------------------------------------------
\* NaokoDB.getVideos

legal_cols == {"type", "id", "duration_ms", "title"} \cup {"type", "id", "uname"}

col_repl(col) ==
    CASE col = "id" -> "v.id" [] col = "type" -> "v.type" [] OTHER -> col

NoAttributeError == Err("AttributeError", "object has no attribute 'lower'")

\* The loop of matchOrderBy from index i on; `and` does not evaluate its
\* right operand when valid is already false.
RECURSIVE MatchLoop(_, _, _, _)
MatchLoop(this, other, i, valid) ==
    IF i > Len(this) THEN [err |-> NoErr, val |-> valid]
    ELSE IF ~valid THEN MatchLoop(this, other, i + 1, FALSE)
    ELSE IF this[i].t # "str" THEN [err |-> NoAttributeError, val |-> FALSE]
    ELSE MatchLoop(this, other, i + 1, lower(this[i].s) = lower(other[2].s))

\* matchOrderBy(this, other), lines 284-290 (the lines after the return are
\* never run).
matchOrderBy(this, other) ==
    IF this = other THEN [err |-> NoErr, val |-> TRUE]
    ELSE MatchLoop(this, other, 1, Len(this) = 2 /\ Len(other) = 2)

NoOrder == "none"

\* The dispatch on orderby with the two clauses on id exchanged.
OrderClause_exchanged(ob) ==
    LET a == matchOrderBy(ob.items, <<id, ASC>>)
        d == matchOrderBy(ob.items, <<id, DESC>>)
        r == matchOrderBy(ob.items, <<RANDOM>>)
        bad == Err("ProgrammingError", "Invalid orderby")
    IN  IF ob.none THEN [err |-> NoErr, clause |-> NoOrder]
        ELSE IF a.err # NoErr THEN [err |-> a.err, clause |-> NoOrder]
        ELSE IF a.val THEN [err |-> NoErr, clause |-> "ORDER BY v.id DESC"]
        ELSE IF d.err # NoErr THEN [err |-> d.err, clause |-> NoOrder]
        ELSE IF d.val THEN [err |-> NoErr, clause |-> "ORDER BY v.id ASC"]
        ELSE IF r.err # NoErr THEN [err |-> r.err, clause |-> NoOrder]
        ELSE IF r.val THEN [err |-> NoErr, clause |-> "ORDER BY RANDOM()"]
        ELSE [err |-> bad, clause |-> NoOrder]

\* Lines 298-307: the ORDER BY clause for orderby (ob.none: orderby is None).
OrderClause(ob) ==
    LET a == matchOrderBy(ob.items, <<id, ASC>>)
        d == matchOrderBy(ob.items, <<id, DESC>>)
        r == matchOrderBy(ob.items, <<RANDOM>>)
        bad == Err("ProgrammingError", "Invalid orderby")
    IN  IF ob.none THEN [err |-> NoErr, clause |-> NoOrder]
        ELSE IF a.err # NoErr THEN [err |-> a.err, clause |-> NoOrder]
        ELSE IF a.val THEN [err |-> NoErr, clause |-> "ORDER BY v.id ASC"]
        ELSE IF d.err # NoErr THEN [err |-> d.err, clause |-> NoOrder]
        ELSE IF d.val THEN [err |-> NoErr, clause |-> "ORDER BY v.id DESC"]
        ELSE IF r.err # NoErr THEN [err |-> r.err, clause |-> NoOrder]
        ELSE IF r.val THEN [err |-> NoErr, clause |-> "ORDER BY RANDOM()"]
        ELSE [err |-> bad, clause |-> NoOrder]

\* getVideos that never limits its statement.
LimitClause_unlimited(num) ==
    IF num.t \in {"int", "long"} \/ num.t = "NoneType"
    THEN [err |-> NoErr, limit |-> FALSE, binds |-> <<>>]
    ELSE [err |-> Err("ProgrammingError", "Invalid num"), limit |-> FALSE, binds |-> <<>>]

\* Lines 309-314: the LIMIT clause and its bound parameter for num.
LimitClause(num) ==
    IF num.t \in {"int", "long"}
    THEN [err |-> NoErr, limit |-> TRUE, binds |-> <<num.n>>]
    ELSE IF num.t # "NoneType"
    THEN [err |-> Err("ProgrammingError", "Invalid num"), limit |-> FALSE, binds |-> <<>>]
    ELSE [err |-> NoErr, limit |-> FALSE, binds |-> <<>>]

\* The statement built without the check of the columns.
BuildQuery_anycolumns(num, cols, ob) ==
    LET columns == IF cols.none \/ cols.items = {} THEN legal_cols ELSE cols.items
        o == OrderClause(ob)
        l == LimitClause(num)
        q == [select |-> {col_repl(c) : c \in columns},
              order |-> o.clause, limit |-> l.limit, binds |-> l.binds]
    IN  IF o.err # NoErr THEN [err |-> o.err, sql |-> None]
        ELSE IF l.err # NoErr THEN [err |-> l.err, sql |-> None]
        ELSE [err |-> NoErr, sql |-> q]

\* Lines 256-314: the statement built from the arguments (cols.none: columns
\* is None), or the error raised on the way.
BuildQuery(num, cols, ob) ==
    LET columns == IF cols.none \/ cols.items = {} THEN legal_cols ELSE cols.items
        o == OrderClause(ob)
        l == LimitClause(num)
        q == [select |-> {col_repl(c) : c \in columns},
              order |-> o.clause, limit |-> l.limit, binds |-> l.binds]
    IN  IF ~(columns \subseteq legal_cols)
        THEN [err |-> Err("ProgrammingError", "Argument columns not a subset"),
              sql |-> None]
        ELSE IF o.err # NoErr THEN [err |-> o.err, sql |-> None]
        ELSE IF l.err # NoErr THEN [err |-> l.err, sql |-> None]
        ELSE [err |-> NoErr, sql |-> q]

\* NaokoDB.getVideos: ret holds the statement built and the rows fetched.
getVideos(st, w, num, cols, ob) ==
    Let(BuildQuery(num, cols, ob), LAMBDA b :
        IF b.err # NoErr THEN Raise(w, b.err)
        ELSE Then(execute(st, w, Stmt("select_videos", b.sql, None)), LAMBDA x :
                Return(CursorExit(x.w, NoErr), [sql |-> b.sql, rows |-> x.ret])))

----------------------------------------------------------------------------
\* NaokoDB.insertChat

Absent == "absent"

\* Lines 321-351: the row inserted; username and userid are strings given by
\* their characters, protocol is 'ST' when the caller gives none, now is
\* int(time.time()).
ChatRow(msg, username, userid, timestamp, protocol, channel, flags, now) ==
    << IF timestamp.t = "NoneType" THEN now ELSE timestamp.n,
       username,
       IF userid.t = "NoneType" THEN username ELSE userid.s,
       msg,
       IF protocol = Absent THEN "ST" ELSE protocol,
       channel,
       flags >>

\* insertChat without its commit.
insertChat_nocommit(st, w, chat) ==
    Then(cursor(st, w), LAMBDA c :
        Let(CurExecute(c.w, InsertChatRow(chat)), LAMBDA x :
            IF ~x.ok THEN Raise(CursorExit(x.w, x.err), x.err)
            ELSE Return(CursorExit(x.w, NoErr), None)))

\* Lines 352-355: with self.cursor() as cur: cur.execute(INSERT); self.commit()
insertChat(st, w, chat) ==
    Then(cursor(st, w), LAMBDA c :
        Let(CurExecute(c.w, InsertChatRow(chat)), LAMBDA x :
            IF ~x.ok THEN Raise(CursorExit(x.w, x.err), x.err)
            ELSE commit(st, CursorExit(x.w, NoErr))))

----------------------------------------------------------------------------
\* The databases a handle may be opened on: any set of tables, the indexes of
\* chat where chat exists, any stored version where metadata exists, no chat
\* rows.
InitialDatabases ==
    { Database(t, i, m, <<>>) :
        t \in SUBSET TableNames,
        i \in SUBSET IndexNames,
        m \in {<<>>} \cup {<<v>> : v \in StoredValues} }

WellFormed(d) ==
    /\ (d.indexes # {} => "chat" \in d.tables)
    /\ (d.meta # <<>> => "metadata" \in d.tables)

\* The version 1 database (before chat and metadata) and the version 2 one.
LegacyDatabase == Database({"video_stats", "videos"}, {}, <<>>, <<>>)

CurrentDatabase == Database(TableNames, IndexNames, <<Text(<<"2">>)>>, <<>>)

StartDatabases == {EmptyDatabase, LegacyDatabase, CurrentDatabase}

NoCall ==
    [op |-> "none", args |-> <<>>, err |-> NoErr, ret |-> None, calls |-> 0,
     log |-> <<>>]

\* Before the first construction, on database file d.
Start(d) ==
    /\ disk = d
    /\ db = disk
    /\ state = "unset"
    /\ pc = "idle"
    /\ initscript = NaokoSql
    /\ last = NoCall
    /\ ncur = 0
    /\ closes = 0
    /\ opens = 0

Init == \E d \in StartDatabases : Start(d)

InitAny == \E d \in {x \in InitialDatabases : WellFormed(x)} : Start(d)

\* The world an operation starts in.
Here == World(db, disk, ncur)

\* The outcome r of operation op called with args, written back.
Outcome(op, args, r) ==
    /\ db' = r.w.db
    /\ disk' = r.w.disk
    /\ ncur' = r.w.ncur
    /\ last' = [op |-> op, args |-> args, err |-> r.err, ret |-> r.ret,
                calls |-> r.w.calls, log |-> r.w.log]

----------------------------------------------------------------------------
\* Construction: NaokoDB(database, initscript), in the three steps of __init__.

\* No handle is in use: none was made yet, the last construction failed, or
\* the last handle was closed.
NoHandle ==
    \/ pc = "idle"
    \/ pc = "failed"
    \/ (pc = "ready" /\ state = "closed")

\* Lines 133-138: sqlite3.connect succeeds; a new connection sees what is
\* committed.
Connect(script) ==
    /\ NoHandle
    /\ opens < MaxOpens
    /\ opens' = opens + 1
    /\ initscript' = script
    /\ db' = disk
    /\ state' = "open"
    /\ pc' = "setup"
    /\ ncur' = 0
    /\ closes' = 0
    /\ last' = [NoCall EXCEPT !.op = "__init__", !.args = <<script>>]
    /\ UNCHANGED disk

\* Line 137: sqlite3.connect raises (the file cannot be opened).
ConnectFails(script) ==
    /\ NoHandle
    /\ opens < MaxOpens
    /\ opens' = opens + 1
    /\ initscript' = script
    /\ db' = disk
    /\ state' = "unset"
    /\ pc' = "failed"
    /\ ncur' = 0
    /\ closes' = 0
    /\ last' = [NoCall EXCEPT !.op = "__init__", !.args = <<script>>,
                              !.err = Err("OperationalError", "unable to open database file")]
    /\ UNCHANGED disk

\* Line 140: self._setupSchema()
Setup ==
    /\ pc = "setup"
    /\ \E r \in {setupSchema(state, Here, initscript)} :
         /\ Outcome("__init__", <<initscript>>, r)
         /\ pc' = IF r.err = NoErr THEN "verify" ELSE "failed"
    /\ UNCHANGED <<state, initscript, closes, opens>>

\* Lines 141-146: the check of the required tables; the handle is returned.
Verify ==
    /\ pc = "verify"
    /\ \E r \in {verifyTables(state, Here)} :
         /\ Outcome("__init__", <<initscript>>, r)
         /\ pc' = IF r.err = NoErr THEN "ready" ELSE "failed"
    /\ UNCHANGED <<state, initscript, closes, opens>>

----------------------------------------------------------------------------
\* The operations a caller makes on the handle it was given. A call whose
\* outcome would hold more than MaxCursors cursors open is not explored.

Call(op, args, result) ==
    /\ pc = "ready"
    /\ \E r \in {result} :
         /\ r.w.ncur <= MaxCursors
         /\ Outcome(op, args, r)
    /\ UNCHANGED <<state, pc, initscript, closes, opens>>

\* The statements a caller passes to execute, executeDML and fetch.
UserStmts == {dbinfo_sql, version_sql, DropTable("metadata"), DropTable("chat")}

InitDb == Call("initdb", <<>>, initdb(state, Here, initscript))

Cursor == Call("cursor", <<>>, cursor(state, Here))

Execute(stmt) == Call("execute", <<stmt>>, execute(state, Here, stmt))

ExecuteDML(stmt) == Call("executeDML", <<stmt>>, executeDML(state, Here, stmt))

Commit == Call("commit", <<>>, commit(state, Here))

ExecuteScript == Call("executescript", <<initscript>>, executescript(state, Here, initscript))

Fetch(stmt) == Call("fetch", <<stmt>>, fetch(state, Here, stmt))

\* db._getVersion()
GetVersion == Call("_getVersion", <<>>, getVersion(state, Here))

\* db._setupSchema()
SetupSchema == Call("_setupSchema", <<>>, setupSchema(state, Here, initscript))

GetVideos(num, cols, ob) ==
    Call("getVideos", <<num, cols, ob>>, getVideos(state, Here, num, cols, ob))

\* The clock read by insertChat.
Times == {5}

InsertChat(msg, username, userid, timestamp, protocol, channel, flags) ==
    /\ Len(db.chat) < MaxChat
    /\ \E now \in Times :
         Call("insertChat",
              <<msg, username, userid, timestamp, protocol, channel, flags>>,
              insertChat(state, Here,
                  ChatRow(msg, username, userid, timestamp, protocol,
                          channel, flags, now)))

\* cur.close() by the caller that holds a cursor.
ReleaseCursor ==
    /\ pc = "ready"
    /\ ncur > 0
    /\ ncur' = ncur - 1
    /\ last' = [NoCall EXCEPT !.op = "cursor.close"]
    /\ UNCHANGED <<disk, db, state, pc, initscript, closes, opens>>

\* NaokoDB.__exit__ with exception e in flight; close() is __exit__ with
\* none. Closing the connection drops its pending transaction.
Exit(e) ==
    /\ pc = "ready"
    /\ closes < MaxCloses
    /\ state' = "closed"
    /\ closes' = closes + 1
    /\ db' = disk
    /\ last' = [NoCall EXCEPT
                  !.op = IF e = NoErr THEN "close" ELSE "__exit__",
                  !.args = <<e>>,
                  !.calls = 1,
                  !.log = IF e = NoErr THEN <<>>
                          ELSE <<[level |-> "error", what |-> e]>>]
    /\ UNCHANGED <<disk, pc, initscript, ncur, opens>>

----------------------------------------------------------------------------
\* The arguments explored.

NoneArg == [none |-> TRUE, items |-> <<>>]

Tuple(t) == [none |-> FALSE, items |-> t]

NoColumns == [none |-> TRUE, items |-> {}]

Columns(c) == [none |-> FALSE, items |-> c]

Nums == {PyNone, PyInt(1)}

ColumnArgs == {NoColumns, Columns({"id"}), Columns({"bogus"})}

OrderArgs == {NoneArg, Tuple(<<id, ASC>>), Tuple(<<id, PyStr(<<"S", "I", "D", "E">>)>>)}

\* insertChat('m', 'u') and a call that gives every argument.
ChatCalls ==
    { <<"m", <<"u">>, PyNone, PyNone, Absent, None, None>>,
      <<"m", <<"u">>, PyStr(<<"k">>), PyInt(1), "IRC", "Denshi", "o">> }

Exceptions == {NoErr, Err("Exception", "raised in the with block")}

\* The scripts a handle is opened with when every operation is explored.
SeedScripts == {NaokoSql, Script(TRUE, {}, {}, <<>>)}

\* Every operation of the handle, on the start databases.
Next ==
    \/ \E script \in SeedScripts : Connect(script)
    \/ \E script \in SeedScripts : ConnectFails(script)
    \/ Setup
    \/ Verify
    \/ InitDb
    \/ Cursor
    \/ \E stmt \in UserStmts : Execute(stmt)
    \/ \E stmt \in UserStmts : ExecuteDML(stmt)
    \/ Commit
    \/ ExecuteScript
    \/ \E stmt \in UserStmts : Fetch(stmt)
    \/ GetVersion
    \/ SetupSchema
    \/ \E num \in Nums, cols \in ColumnArgs, ob \in OrderArgs : GetVideos(num, cols, ob)
    \/ \E c \in ChatCalls : InsertChat(c[1], c[2], c[3], c[4], c[5], c[6], c[7])
    \/ ReleaseCursor
    \/ \E e \in Exceptions : Exit(e)

Spec == Init /\ [][Next]_vars

\* The steps this layer takes by itself (no statement given by the caller),
\* on every database and with every script.
NextLayer ==
    \/ \E script \in Scripts : Connect(script)
    \/ \E script \in Scripts : ConnectFails(script)
    \/ Setup
    \/ Verify
    \/ GetVersion
    \/ Commit
    \/ \E num \in Nums : GetVideos(num, NoColumns, NoneArg)
    \/ \E c \in ChatCalls : InsertChat(c[1], c[2], c[3], c[4], c[5], c[6], c[7])
    \/ Exit(NoErr)

SpecLayer == InitAny /\ [][NextLayer]_vars

\* The query builder on a handle opened on a new database: every limit with
\* a few orderby values, and every orderby tuple of at most MaxOrderLen of
\* the words below with a few limits.
MaxOrderLen == 2

OrderTokens ==
    { id, PyStr(<<"I", "D">>), ASC, PyStr(<<"a", "s", "c">>), DESC,
      PyStr(<<"S", "I", "D", "E", "W", "A", "Y", "S">>), RANDOM }

AllOrderArgs ==
    {NoneArg} \cup
    {Tuple(t) : t \in UNION {[1..n -> OrderTokens] : n \in 0..MaxOrderLen}}

AllNums ==
    {PyNone, PyInt(0 - 1), PyInt(0), PyInt(1), PyInt(5), PyStr(<<"5">>), PyFloat}

\* Every set of the legal columns and of one that is not a column.
AllColumnArgs ==
    {NoColumns} \cup {Columns(c) : c \in SUBSET (legal_cols \cup {"bogus"})}

InitQuery == Start(EmptyDatabase)

NextQuery ==
    \/ Connect(NaokoSql)
    \/ Setup
    \/ Verify
    \/ \E num \in AllNums, cols \in ColumnArgs, ob \in OrderArgs :
          GetVideos(num, cols, ob)
    \/ \E num \in Nums, cols \in ColumnArgs, ob \in AllOrderArgs :
          GetVideos(num, cols, ob)
    \/ Exit(NoErr)

SpecQuery == InitQuery /\ [][NextQuery]_vars

\* The query builder with every columns argument, on an open handle and on a
\* closed one.
NextColumns ==
    \/ Connect(NaokoSql)
    \/ Setup
    \/ Verify
    \/ \E num \in Nums, cols \in AllColumnArgs, ob \in OrderArgs :
          GetVideos(num, cols, ob)
    \/ Exit(NoErr)

SpecColumns == InitQuery /\ [][NextColumns]_vars

\* The query builder on databases that hold videos: at most MaxVideos rows
\* of videos, no two with the same (type, id), and at most MaxStats rows of
\* video_stats, in every order of storage.
MaxVideos == 2

MaxStats == 2

VideoKeys == {<<"yt", 1>>, <<"yt", 2>>, <<"dm", 1>>}

VideoContents ==
    { v \in UNION {[1..n -> {VideoRow(k[1], k[2]) : k \in VideoKeys}] : n \in 0..MaxVideos} :
        \A i, j \in 1..Len(v) : i # j => v[i] # v[j] }

StatsContents ==
    UNION {[1..n -> {StatsRow(k[1], k[2], "u") : k \in VideoKeys}] : n \in 0..MaxStats}

InitVideos ==
    \E v \in VideoContents, s \in StatsContents :
        Start(Stocked(CurrentDatabase, v, s))

VideoNums == {PyNone, PyInt(0), PyInt(1), PyInt(2), PyInt(5)}

VideoOrderArgs == {NoneArg, Tuple(<<id, ASC>>), Tuple(<<id, DESC>>)}

NextVideos ==
    \/ Connect(NaokoSql)
    \/ Setup
    \/ Verify
    \/ \E num \in VideoNums, cols \in {NoColumns, Columns({"id"})}, ob \in VideoOrderArgs :
          GetVideos(num, cols, ob)

SpecVideos == InitVideos /\ [][NextVideos]_vars

\* The operations that open a cursor and are to close it themselves, with
\* statements that the engine runs and statements that it rejects; no caller
\* holds a cursor.
NextCursors ==
    \/ Connect(NaokoSql)
    \/ Setup
    \/ Verify
    \/ \E stmt \in UserStmts : ExecuteDML(stmt)
    \/ \E stmt \in UserStmts : Fetch(stmt)
    \/ \E num \in Nums : GetVideos(num, NoColumns, NoneArg)
    \/ \E c \in ChatCalls : InsertChat(c[1], c[2], c[3], c[4], c[5], c[6], c[7])
    \/ Commit
    \/ Exit(NoErr)

SpecCursors == Init /\ [][NextCursors]_vars

----------------------------------------------------------------------------
\* Properties.

PrimitiveOps ==
    {"initdb", "cursor", "execute", "executeDML", "executescript", "fetch", "commit"}

StateErrorFor(s) == IF s = "closed" THEN ClosedError ELSE NotOpenError

\* Result r of an operation called in state s is the state error, and the
\* operation did nothing.
Refused(s, r) == r.err = StateErrorFor(s) /\ r.w = Here

\* Every primitive operation is refused in state s.
AllRefused(s) ==
    /\ Refused(s, initdb(s, Here, initscript))
    /\ Refused(s, cursor(s, Here))
    /\ Refused(s, commit(s, Here))
    /\ Refused(s, executescript(s, Here, initscript))
    /\ \A stmt \in UserStmts :
          /\ Refused(s, execute(s, Here, stmt))
          /\ Refused(s, executeDML(s, Here, stmt))
          /\ Refused(s, fetch(s, Here, stmt))

\* The handle as the operation after this step will find it.
There == World(db', disk', ncur')

\* C1: a primitive operation (initdb, cursor, execute, executeDML,
\* executescript, fetch, commit) called while the state is not 'open' raises
\* the state error and does nothing on the connection: the 'closed' error
\* when the state is 'closed', the different 'must be open' error in any
\* other state; once closed, a handle stays closed.
C1_NotOpenFails ==
    /\ [](/\ ClosedError # NotOpenError
          /\ \A s \in {"closed", "unset", "opening"} : AllRefused(s))
    /\ [][(state # "open" /\ last'.op \in PrimitiveOps /\ opens' = opens)
            => /\ last'.err = StateErrorFor(state)
               /\ last'.calls = 0
               /\ db' = db /\ disk' = disk /\ ncur' = ncur
               /\ state' = state]_vars
    /\ [][(state = "closed" /\ opens' = opens) => state' = "closed"]_vars

\* C1: execute was called after close() and raised the 'closed' error.
C1_Witness ==
    /\ state = "closed"
    /\ last.op = "execute"
    /\ last.err = ClosedError

\* C2: after a construction that failed, the state is not 'open'.
C2_FailedNeverOpen == pc = "failed" => state # "open"

\* C3: the handle is returned only when video_stats, videos and chat all
\* exist after setup; when one is missing after setup, construction raises
\* the required-tables error and no handle is returned.
C3_RequiredTablesGate ==
    /\ [][(pc = "verify" /\ pc' = "ready")
            => {"video_stats", "videos", "chat"} \subseteq db.tables]_vars
    /\ [][(pc = "verify" /\ ~({"video_stats", "videos", "chat"} \subseteq db.tables))
            => /\ pc' = "failed"
               /\ last'.err = MissingTablesError
               /\ last'.err.kind = "ValueError"]_vars

\* C3: a construction ended with the required-tables error.
C3_Witness ==
    /\ pc = "failed"
    /\ last.op = "__init__"
    /\ last.err = MissingTablesError

InitscriptRan == <<[level |-> "debug", what |-> RunningInitscript]>>

\* C4: opening a database without tables with naoko.sql runs the script and
\* not the migration, and the handle returned reports version 2 and has
\* video_stats, videos and chat.
C4_FreshDatabase ==
    /\ [][(pc = "setup" /\ db.tables = {} /\ initscript = NaokoSql)
            => /\ pc' = "verify"
               /\ last'.log = InitscriptRan
               /\ db' = RunScript(db, NaokoSql).db
               /\ disk' = db'
               /\ {"video_stats", "videos", "chat"} \subseteq db'.tables
               /\ getVersion(state', There).err = NoErr
               /\ getVersion(state', There).ret = 2]_vars
    /\ [][(pc = "verify" /\ initscript = NaokoSql /\ last.log = InitscriptRan)
            => /\ pc' = "ready"
               /\ state' = "open"
               /\ last'.err = NoErr
               /\ {"video_stats", "videos", "chat"} \subseteq db'.tables
               /\ getVersion(state', There).err = NoErr
               /\ getVersion(state', There).ret = 2]_vars

\* C4: setup has run naoko.sql on a database without tables.
C4_Witness ==
    /\ pc = "verify"
    /\ initscript = NaokoSql
    /\ last.log = InitscriptRan
    /\ db = CurrentDatabase

\* C5: on a version 2 database whose metadata and chat tables were dropped
\* _getVersion returns 1; _setupSchema then migrates it: _getVersion returns
\* 2 and metadata and chat exist; _setupSchema run once more changes nothing.
C5_DowngradeUpgrade ==
    /\ [][(pc = "ready" /\ state = "open" /\ db.tables = {"video_stats", "videos"}
           /\ last'.op = "_getVersion")
            => last'.err = NoErr /\ last'.ret = 1]_vars
    /\ [][(pc = "ready" /\ state = "open" /\ db.tables = {"video_stats", "videos"}
           /\ last'.op = "_setupSchema")
            => /\ last'.err = NoErr
               /\ {"metadata", "chat"} \subseteq db'.tables
               /\ getVersion(state', There).err = NoErr
               /\ getVersion(state', There).ret = 2]_vars
    /\ [](pc = "ready" /\ state = "open" /\ last.op = "_setupSchema"
          /\ last.err = NoErr
            => LET r == setupSchema(state, Here, initscript)
               IN  r.err = NoErr /\ r.w.db = db /\ r.w.disk = disk)

\* C5: _setupSchema, called on the handle, has migrated the database (the
\* version row it inserted is not committed yet).
C5_Witness ==
    /\ pc = "ready"
    /\ state = "open"
    /\ last.op = "_setupSchema"
    /\ last.err = NoErr
    /\ db.meta = <<Text(<<"2">>)>>
    /\ disk.meta = <<>>
    /\ {"metadata", "chat"} \subseteq db.tables

\* The stored values that are integers, and the integer each one is.
IntegerMarkers ==
    { Text(<<"2">>), Text(<<"1">>), Text(<<"3">>), Text(<<"0">>),
      Text(<<" ", "2">>), Text(<<"1", "0">>), Text(<<"-", "1">>) }

MarkerValue(v) ==
    CASE v = Text(<<"2">>) -> 2
      [] v = Text(<<"1">>) -> 1
      [] v = Text(<<"3">>) -> 3
      [] v = Text(<<"0">>) -> 0
      [] v = Text(<<" ", "2">>) -> 2
      [] v = Text(<<"1", "0">>) -> 10
      [] v = Text(<<"-", "1">>) -> 0 - 1

\* Database d stores a version that is an integer.
HasStoredVersion(d) ==
    "metadata" \in d.tables /\ d.meta # <<>> /\ d.meta[1] \in IntegerMarkers

\* C6: on a database with tables whose stored version is an integer other
\* than 1, schema setup changes nothing (tables, indexes, stored version,
\* committed or pending) and does not fail; it logs a warning when the
\* version is not 2 and nothing when it is 2.
C6_NoMigration ==
    [][(pc = "setup" /\ db.tables # {} /\ HasStoredVersion(db)
        /\ MarkerValue(db.meta[1]) # 1)
         => /\ pc' = "verify"
            /\ last'.err = NoErr
            /\ db' = db
            /\ disk' = disk
            /\ last'.log = IF MarkerValue(db.meta[1]) = 2 THEN <<>>
                           ELSE <<[level |-> "warn", what |-> UnknownVersion]>>]_vars

\* C6: setup has met an unknown version and gone on.
C6_Witness ==
    /\ pc = "verify"
    /\ last.log = <<[level |-> "warn", what |-> UnknownVersion]>>
    /\ HasStoredVersion(db)
    /\ MarkerValue(db.meta[1]) = 3

\* What _getVersion reports on database d.
Reported(d) == getVersion("open", World(d, d, 0))

\* The database a call of _getVersion reads: the connection's view while a
\* handle is open, else what is committed.
Visible ==
    IF pc \in {"setup", "verify", "ready"} /\ state = "open" THEN db ELSE disk

\* C7: no step of this layer (construction, setup, migration, insertChat,
\* getVideos, commit, close, reopening) takes the version _getVersion
\* reports to a lower value.  A step that leaves the visible database as it
\* was leaves the report as it was, so only the other steps are compared.
C7_VersionNeverLower ==
    [][Visible' # Visible =>
         Let(Reported(Visible), LAMBDA before :
         Let(Reported(Visible'), LAMBDA after :
             (before.err = NoErr /\ after.err = NoErr)
                 => after.ret >= before.ret))]_vars

\* C7: a migration has taken a database from version 1 to version 2.
C7_Witness ==
    /\ pc = "verify"
    /\ last.op = "__init__"
    /\ last.log = <<>>
    /\ Reported(disk).err # NoErr
    /\ Reported(db).err = NoErr
    /\ Reported(db).ret = 2

\* C8: _getVersion returns 1 when there is no metadata table, the integer
\* stored under 'dbversion' when there is one, and raises the error kind of
\* the required-tables failure when the stored value is no integer or there
\* is no 'dbversion' row.
C8_VersionOrSchemaError ==
    state = "open" =>
        LET r == getVersion(state, Here)
        IN  IF "metadata" \notin db.tables
            THEN r.err = NoErr /\ r.ret = 1
            ELSE IF HasStoredVersion(db)
            THEN r.err = NoErr /\ r.ret = MarkerValue(db.meta[1])
            ELSE r.err.kind = MissingTablesError.kind

LegalOrderArgs ==
    {NoneArg, Tuple(<<id, ASC>>), Tuple(<<id, DESC>>), Tuple(<<RANDOM>>)}

ExpectedClause(ob) ==
    CASE ob = NoneArg -> NoOrder
      [] ob = Tuple(<<id, ASC>>) -> "ORDER BY v.id ASC"
      [] ob = Tuple(<<id, DESC>>) -> "ORDER BY v.id DESC"
      [] ob = Tuple(<<RANDOM>>) -> "ORDER BY RANDOM()"

InvalidOrderby == Err("ProgrammingError", "Invalid orderby")

InvalidNum == Err("ProgrammingError", "Invalid num")

LegalColumns(cols) == cols.none \/ cols.items \subseteq legal_cols

\* getVideos was called on an open handle with legal columns.
QueryMade ==
    /\ pc = "ready"
    /\ state = "open"
    /\ last.op = "getVideos"
    /\ LegalColumns(last.args[2])

\* C9: getVideos takes orderby None, ('id', 'ASC'), ('id', 'DESC') and
\* ('RANDOM()',) and appends the clause of each; every other orderby raises
\* the 'Invalid orderby' error and no statement is built.
C9_OrderByWhitelist ==
    QueryMade =>
        IF last.args[3] \in LegalOrderArgs
        THEN /\ last.err # InvalidOrderby
             /\ (last.err = NoErr
                   => last.ret.sql.order = ExpectedClause(last.args[3]))
        ELSE last.err = InvalidOrderby

\* C10: getVideos with no limit builds a statement without LIMIT, with a
\* non-negative integer limit one with LIMIT ? bound to it, and raises the
\* 'Invalid num' error for every other limit.
C10_LimitValidated ==
    (QueryMade /\ last.args[3] \in LegalOrderArgs) =>
        LET num == last.args[1]
        IN  IF num.t = "NoneType"
            THEN last.err = NoErr /\ ~last.ret.sql.limit
            ELSE IF num.t = "int" /\ num.n >= 0
            THEN /\ last.err = NoErr
                 /\ last.ret.sql.limit
                 /\ last.ret.sql.binds = <<num.n>>
            ELSE last.err = InvalidNum

InvalidColumns == Err("ProgrammingError", "Argument columns not a subset")

VideoColumns == {"type", "id", "duration_ms", "title", "uname"}

\* C11: getVideos raises the 'columns not a subset' error exactly for a
\* columns argument with a column outside type, id, duration_ms, title and
\* uname (None and the empty set stand for all five), and raises it before
\* anything is done on the connection: no cursor, no statement, nothing
\* logged; on an open handle a query with legal columns, no orderby and a
\* legal limit is run and selects the columns asked for.
C11_ColumnsWhitelist ==
    /\ [](last.op = "getVideos"
            => (last.err = InvalidColumns
                  <=> ~(last.args[2].none \/ last.args[2].items \subseteq VideoColumns)))
    /\ [][(last'.op = "getVideos" /\ last'.err = InvalidColumns)
            => /\ last'.calls = 0
               /\ last'.log = <<>>
               /\ ncur' = ncur
               /\ db' = db
               /\ disk' = disk]_vars
    /\ []((last.op = "getVideos" /\ state = "open" /\ last.args[3] = NoneArg
           /\ last.args[1] \in Nums /\ last.err # InvalidColumns)
            => /\ last.err = NoErr
               /\ last.calls = 2
               /\ last.ret.sql.select =
                    LET c == last.args[2]
                    IN  {IF x \in {"id", "type"} THEN "v." \o x ELSE x :
                           x \in IF c.none \/ c.items = {} THEN VideoColumns
                                 ELSE c.items})

\* C11: getVideos was called with a column that is none on an open handle and
\* raised the error of the columns.
C11_Witness ==
    /\ state = "open"
    /\ last.op = "getVideos"
    /\ last.args[2] = Columns({"id", "bogus"})
    /\ last.err = InvalidColumns

\* C12: getVideos and insertChat called on a handle that is not open raise
\* the state error, whatever their arguments, and do nothing on the
\* connection.
C12_HelpersGuarded ==
    (pc = "ready" /\ state # "open" /\ last.op \in {"getVideos", "insertChat"})
        => /\ last.err = StateErrorFor(state)
           /\ last.calls = 0

\* C13: whatever the number of close() calls and scoped exits on a handle,
\* each leaves the state 'closed' and raises nothing, and the close of the
\* underlying connection is made once and never again.
C13_CloseOnce ==
    /\ (last.op \in {"close", "__exit__"} => state = "closed" /\ last.err = NoErr)
    /\ closes <= 1

\* The row insertChat is to store for the arguments a it was called with at
\* time now.
ExpectedChatRow(a, now) ==
    << IF a[4] = PyNone THEN now ELSE a[4].n,
       a[2],
       IF a[3] = PyNone THEN a[2] ELSE a[3].s,
       a[1],
       IF a[5] = Absent THEN "ST" ELSE a[5],
       a[6],
       a[7] >>

MatchingPairs(d) ==
    Cardinality({ p \in (DOMAIN d.stats) \X (DOMAIN d.videos) :
                    /\ d.stats[p[1]].type = d.videos[p[2]].type
                    /\ d.stats[p[1]].id = d.videos[p[2]].id })

\* getVideos returned on an open handle.
VideosReturned ==
    /\ pc = "ready"
    /\ state = "open"
    /\ last.op = "getVideos"
    /\ last.err = NoErr

\* C15: getVideos with a limit n >= 0 returns min(n, J) rows and with no
\* limit J rows, J being the number of pairs of a video_stats row and a
\* videos row with the same type and id; it raises nothing when the limit
\* is None or such an n.
C15_LimitedRows ==
    (pc = "ready" /\ state = "open" /\ last.op = "getVideos"
     /\ (last.args[1] = PyNone \/ (last.args[1].t = "int" /\ last.args[1].n >= 0)))
        => /\ last.err = NoErr
           /\ Len(last.ret.rows) =
                IF last.args[1] = PyNone \/ last.args[1].n >= MatchingPairs(db)
                THEN MatchingPairs(db)
                ELSE last.args[1].n

\* C15: getVideos(1) returned one row of the two there are.
C15_Witness ==
    /\ VideosReturned
    /\ last.args[1] = PyInt(1)
    /\ MatchingPairs(db) = 2
    /\ Len(last.ret.rows) = 1

\* The ids of the rows getVideos returned, in the order it returned them.
ReturnedIds == [k \in 1..Len(last.ret.rows) |-> last.ret.rows[k]["v.id"].n]

\* C16: getVideos(columns={'id'}, orderby=('id','ASC')) returns its rows
\* with ids that never decrease and orderby=('id','DESC') with ids that
\* never increase, the ids being those of the videos rows that have a
\* matching video_stats row; the rows returned are the rows of the engine in
\* the engine's order.
C16_OrderedById ==
    (VideosReturned /\ last.args[2] = Columns({"id"}))
        => /\ last.ret.rows = Run(db, Stmt("select_videos", last.ret.sql, None)).rows
           /\ \A k \in 1..Len(last.ret.rows) :
                \E i \in DOMAIN db.stats, j \in DOMAIN db.videos :
                    /\ db.stats[i].type = db.videos[j].type
                    /\ db.stats[i].id = db.videos[j].id
                    /\ ReturnedIds[k] = db.videos[j].id
           /\ (last.args[3] = Tuple(<<id, ASC>>)
                 => \A k \in 1..(Len(ReturnedIds) - 1) : ReturnedIds[k] <= ReturnedIds[k + 1])
           /\ (last.args[3] = Tuple(<<id, DESC>>)
                 => \A k \in 1..(Len(ReturnedIds) - 1) : ReturnedIds[k] >= ReturnedIds[k + 1])

\* C16: getVideos(None, {'id'}, ('id', 'ASC')) returned ids 1, 2 from rows
\* stored with id 2 before id 1.
C16_Witness ==
    /\ VideosReturned
    /\ last.args = <<PyNone, Columns({"id"}), Tuple(<<id, ASC>>)>>
    /\ Len(db.stats) = 2
    /\ db.stats[1].id = 2
    /\ db.stats[2].id = 1
    /\ ReturnedIds = <<1, 2>>

\* C17: after construction and after executeDML, fetch, getVideos and
\* insertChat, whether they returned or raised, no cursor is open (here no
\* caller holds a cursor of its own, so every open cursor is one that such an
\* operation opened and did not close).
C17_CursorsReleased ==
    (pc = "ready" /\ last.op \in {"__init__", "executeDML", "fetch", "getVideos", "insertChat"})
        => ncur = 0

\* The kinds of error the engine raises.
EngineErrors == {"OperationalError", "IntegrityError"}

\* C20: an engine error met by executeDML, fetch, getVideos or insertChat
\* reaches the caller as the engine raised it and is logged, kind and
\* message, as an error when the cursor is released.
C20_EngineErrorLogged ==
    (pc = "ready" /\ last.op \in {"executeDML", "fetch", "getVideos", "insertChat"}
     /\ last.err.kind \in EngineErrors)
        => \E k \in DOMAIN last.log : last.log[k] = [level |-> "error", what |-> last.err]

\* The five statements of the migration from version 1 to version 2.
MigrationStatements ==
    << Stmt("create_table", "metadata", None),
       Stmt("create_table", "chat", None),
       Stmt("create_index", "chat_ts", "chat"),
       Stmt("create_index", "chat_user", "chat"),
       Stmt("insert_version", Text(<<"2">>), None) >>

\* Statements n, n + 1, ... of the migration run by the engine on database d,
\* one after the other up to the first that fails: the database then, the
\* error of that statement, and the statements that were run.
RECURSIVE MigratedFrom(_, _)
MigratedFrom(d, n) ==
    IF n > Len(MigrationStatements) THEN [db |-> d, err |-> NoErr, done |-> n - 1]
    ELSE IF ~Run(d, MigrationStatements[n]).ok
    THEN [db |-> d, err |-> Run(d, MigrationStatements[n]).err, done |-> n - 1]
    ELSE MigratedFrom(Run(d, MigrationStatements[n]).db, n + 1)

C19_MigrationCommitted ==
    (pc = "ready" /\ state = "open" /\ last.op = "__init__")
        => /\ disk = db
           /\ Reported(disk).err = NoErr
           /\ (Reported(db).err = NoErr => Reported(disk).ret = Reported(db).ret)

====
